---------------------------- MODULE Spec2Model ----------------------------
(***************************************************************************)
(* Generador de tabla nutricional (app.py): numeric coercion of the form   *)
(* texts, normalisation between "por porcion" and "por 100 g/mL", energy   *)
(* from macronutrients, and the four label layouts as draw sequences.      *)
(*                                                                         *)
(* Numbers.  A Python float of the program is an integer count of          *)
(* thousandths (5.0 g is 5000).  Text is a string.                        *)
(*                                                                         *)
(* Rounding.  round(x, n) and "%.nf" round the binary float.  Away from a  *)
(* decimal tie that is the nearest value; at a decimal tie with n >= 1 the *)
(* outcome depends on the binary representation of the operands, so the    *)
(* operators take the tie direction `up` as a parameter and the actions    *)
(* choose it freely.                                                       *)
(***************************************************************************)
EXTENDS Integers, Sequences, FiniteSets, TLC

VARIABLES
    widgets,   \* session: the value every widget of the page holds
    run,       \* session: the globals of the last run of the script
    img,       \* session: the figure the last run drew
    fn,        \* function harness: name of the last function applied
    args,      \* function harness: its arguments
    ret        \* function harness: its result

appvars == <<widgets, run, img>>
fnvars == <<fn, args, ret>>
vars == <<widgets, run, img, fn, args, ret>>

----------------------------------------------------------------------------
(* Bounds of the model *)

\* longest form text given to as_num in the function harness
MaxLen == 3
\* largest small amount (in thousandths) given to the conversions
MaxMilli == 40
\* most nutrient fields a session edits away from their default texts
MaxEdited == 2

----------------------------------------------------------------------------
(* Fixed-point floats *)

\* thousandths per unit
Scale == 10 * 10 * 10

\* a missing (None) float argument
NoneFloat == 0 - 1000000000

\* what an unguarded x / 0 would produce
ZeroDivisionError == 0 - 1000000001

Abs(x) == IF x < 0 THEN 0 - x ELSE x

RECURSIVE GCD(_, _)
GCD(a, b) == IF b = 0 THEN a ELSE GCD(b, a % b)

\* n / d (d > 0) rounded to the nearest integer; a tie goes up iff `up`
RoundDiv(n, d, up) ==
    LET q == n \div d
        r == n % d
    IN  IF 2 * r > d THEN q + 1
        ELSE IF 2 * r < d THEN q
        ELSE IF up THEN q + 1 ELSE q

\* n / d (d > 0) rounded to the nearest integer, a tie to the even neighbour:
\* round(x) of a float that holds the tie exactly
RoundHalfEven(n, d) ==
    LET q == n \div d
    IN  RoundDiv(n, d, q % 2 = 1)

\* n * a / b rounded, with a / b reduced first
RoundMulDiv(n, a, b, up) ==
    LET g == GCD(a, b)
    IN  RoundDiv(n * (a \div g), b \div g, up)

\* Python truthiness of a float-or-None: None and 0.0 are falsy
Truthy(x) == x # NoneFloat /\ x # 0

\* a statement sequence "v = value; Rest(v)": value is computed once
Then(value, Rest(_)) == CHOOSE r \in {Rest(v) : v \in {value}} : TRUE

----------------------------------------------------------------------------
(* Text: as_num *)

Digits == {"0", "1", "2", "3", "4", "5", "6", "7", "8", "9"}
Whitespace == {" "}

\* str(None)
None == "None"

\* the i-th character of s
Char(s, i) == SubSeq(s, i, i)

DigitVal(c) ==
    CASE c = "0" -> 0 [] c = "1" -> 1 [] c = "2" -> 2 [] c = "3" -> 3
      [] c = "4" -> 4 [] c = "5" -> 5 [] c = "6" -> 6 [] c = "7" -> 7
      [] c = "8" -> 8 [] c = "9" -> 9

RECURSIVE LStrip(_)
LStrip(t) ==
    IF Len(t) > 0 /\ Char(t, 1) \in Whitespace
    THEN LStrip(SubSeq(t, 2, Len(t))) ELSE t

RECURSIVE RStrip(_)
RStrip(t) ==
    IF Len(t) > 0 /\ Char(t, Len(t)) \in Whitespace
    THEN RStrip(SubSeq(t, 1, Len(t) - 1)) ELSE t

\* str.strip()
Strip(t) == RStrip(LStrip(t))

\* str.replace(a, b) for one-character a and b
RECURSIVE Replace(_, _, _)
Replace(t, a, b) ==
    IF Len(t) = 0 THEN t
    ELSE (IF Char(t, 1) = a THEN b ELSE Char(t, 1))
         \o Replace(SubSeq(t, 2, Len(t)), a, b)

\* the value of the decimal digits of t, other characters skipped
RECURSIVE DigitsValue(_)
DigitsValue(t) ==
    IF Len(t) = 0 THEN 0
    ELSE LET c == Char(t, Len(t))
             rest == DigitsValue(SubSeq(t, 1, Len(t) - 1))
         IN  IF c \in Digits THEN 10 * rest + DigitVal(c) ELSE rest

\* the float 0.0
Zero == [kind |-> "num", neg |-> FALSE, mant |-> 0, frac |-> 0]

\* float() of text without sign: digits with at most one point and at least
\* one digit, or one of the names of the non-finite floats
ParseUnsigned(body, neg, dots, digs) ==
    IF body = "nan" THEN [kind |-> "nan", neg |-> neg]
    ELSE IF body \in {"inf", "infinity"} THEN [kind |-> "inf", neg |-> neg]
    ELSE IF /\ dots \cup digs = 1..Len(body)
            /\ Cardinality(dots) <= 1
            /\ digs # {}
    THEN [kind |-> "num", neg |-> neg, mant |-> DigitsValue(body),
          frac |-> IF dots = {} THEN 0
                   ELSE Len(body) - (CHOOSE i \in dots : TRUE)]
    ELSE [kind |-> "ValueError"]

\* float() of stripped text from its k-th character on
ParseFrom(t, k, neg) ==
    ParseUnsigned(SubSeq(t, k, Len(t)), neg,
                  {i \in 1..(Len(t) - k + 1) : Char(t, k + i - 1) = "."},
                  {i \in 1..(Len(t) - k + 1) : Char(t, k + i - 1) \in Digits})

\* float() of stripped text: an optional sign first
ParseSigned(t) ==
    IF Len(t) > 0 /\ Char(t, 1) \in {"-", "+"}
    THEN ParseFrom(t, 2, Char(t, 1) = "-")
    ELSE ParseFrom(t, 1, FALSE)

\* float(s): [kind |-> "num", neg, mant, frac] is (-1)^neg * mant / 10^frac,
\* kind "nan" and "inf" are the non-finite floats, kind "ValueError" is the
\* exception float() raises.  (Exponents, underscores and upper case are
\* outside the alphabet of the model.)
ParseFloat(s) == ParseSigned(Strip(s))

\* "try: return float(...) except Exception: return 0.0"
Except0(f) == IF f.kind = "ValueError" THEN Zero ELSE f

\* as_num: None and blank text give 0.0, otherwise float() of the text with
\* "," for ".", and 0.0 when float() raises
as_num(x) ==
    IF x = None \/ Strip(x) = "" THEN Zero
    ELSE Except0(ParseFloat(Replace(x, ",", ".")))

\* 10^n
RECURSIVE Pow10(_)
Pow10(n) == IF n = 0 THEN 1 ELSE 10 * Pow10(n - 1)

\* the fixed-point value of a finite float with at most three decimals
Float(f) ==
    IF f.neg THEN 0 - f.mant * Pow10(3 - f.frac) ELSE f.mant * Pow10(3 - f.frac)

----------------------------------------------------------------------------
(* Conversions and energy *)

per100_from_portion_unguarded(value_per_portion, portion_size, up) ==
    IF portion_size = NoneFloat THEN 0
    ELSE IF portion_size = 0 THEN ZeroDivisionError
    ELSE IF portion_size > 0
    THEN 10 * RoundMulDiv(value_per_portion, 10000, portion_size, up)
    ELSE 0 - 10 * RoundMulDiv(value_per_portion, 10000, 0 - portion_size, ~up)

per100_from_portion_1dp(value_per_portion, portion_size, up) ==
    IF Truthy(portion_size) /\ portion_size > 0
    THEN 100 * RoundMulDiv(value_per_portion, 1000, portion_size, up)
    ELSE 0

\* per100_from_portion: round(value / portion * 100, 2), 0.0 for a portion
\* that is falsy or not positive
per100_from_portion(value_per_portion, portion_size, up) ==
    IF Truthy(portion_size) /\ portion_size > 0
    THEN 10 * RoundMulDiv(value_per_portion, 10000, portion_size, up)
    ELSE 0

\* portion_from_per100: round(value * portion / 100, 2), 0.0 for a portion
\* that is falsy or not positive
portion_from_per100(value_per100, portion_size, up) ==
    IF Truthy(portion_size) /\ portion_size > 0
    THEN 10 * RoundMulDiv(value_per100, portion_size, 1000000, up)
    ELSE 0

\* the default 0.0 of organic_acids_g and alcohol_g
DefaultGrams == 0

\* x or 0.0
Or0(x) == IF Truthy(x) THEN x ELSE 0

kcal_from_macros_truncating(fat_g, carb_g, protein_g, organic_acids_g, alcohol_g, up) ==
    LET kcal == 9 * Or0(fat_g) + 4 * Or0(carb_g) + 4 * Or0(protein_g)
                + 7 * Or0(alcohol_g) + 3 * Or0(organic_acids_g)
    IN  Scale * (kcal \div Scale)

\* kcal_from_macros: 9 fat + 4 carb + 4 protein + 7 alcohol + 3 organic acids,
\* round(kcal, 0)
kcal_from_macros(fat_g, carb_g, protein_g, organic_acids_g, alcohol_g, up) ==
    LET kcal == 9 * Or0(fat_g) + 4 * Or0(carb_g) + 4 * Or0(protein_g)
                + 7 * Or0(alcohol_g) + 3 * Or0(organic_acids_g)
    IN  Scale * RoundDiv(kcal, Scale, up)

----------------------------------------------------------------------------
(* Formatting *)

\* the share computed without the guard on total_kcal
pct_energy_from_nutrient_kcal_unguarded(nutrient_kcal, total_kcal, up) ==
    IF total_kcal = 0 THEN ZeroDivisionError
    ELSE 100 * RoundMulDiv(nutrient_kcal, 1000, total_kcal, up)

\* pct_energy_from_nutrient_kcal: round(nutrient_kcal / total_kcal * 100, 1),
\* 0.0 when total_kcal is falsy or not positive
pct_energy_from_nutrient_kcal(nutrient_kcal, total_kcal, up) ==
    IF Truthy(total_kcal) /\ total_kcal > 0
    THEN 100 * RoundMulDiv(nutrient_kcal, 1000, total_kcal, up)
    ELSE 0

\* str.rstrip(c)
RECURSIVE RStripChar(_, _)
RStripChar(t, c) ==
    IF Len(t) > 0 /\ Char(t, Len(t)) = c
    THEN RStripChar(SubSeq(t, 1, Len(t) - 1), c) ELSE t

\* f"{x:.{nd}f}" for nd 0 or 1.  A float that holds its decimal value
\* exactly (a multiple of 1/8) rounds a tie to the even digit; any other
\* decimal tie rounds as the binary representation falls (`up`).
FormatFixed(x, nd, up) ==
    LET a == Abs(x)
        unit == Pow10(3 - nd)
        k == IF a % 125 = 0 THEN RoundHalfEven(a, unit)
             ELSE RoundDiv(a, unit, up)
    IN  (IF x < 0 THEN "-" ELSE "")
        \o ToString(k \div Pow10(nd))
        \o (IF nd = 0 THEN "" ELSE "." \o ToString(k % Pow10(nd)))

\* fmt_g_only without the two rstrip calls
fmt_g_only_unstripped(x, nd, up) ==
    IF x = NoneFloat THEN "0" ELSE FormatFixed(x, nd, up)

\* fmt_g_only: "%.{nd}f" with trailing zeros, then a trailing point, stripped
fmt_g_only(x, nd, up) ==
    IF x = NoneFloat THEN "0"
    ELSE RStripChar(RStripChar(FormatFixed(x, nd, up), "0"), ".")

\* int(round(x)) of a float
IntRound(x) == RoundHalfEven(x, Scale)

\* fmt_mg_int: f"{int(round(x))} mg"
fmt_mg_int(x) == ToString(IntRound(x)) \o " mg"

\* fmt_ug: "%.{nd}f" stripped as in fmt_g_only, then the unit
fmt_ug(x, nd, up) ==
    RStripChar(RStripChar(FormatFixed(x, nd, up), "0"), ".") \o " µg"

fmt_uger(x, nd, up) ==
    RStripChar(RStripChar(FormatFixed(x, nd, up), "0"), ".") \o " µg ER"

\* fmt_kcal: f"{int(round(x))}"
fmt_kcal(x) == ToString(IntRound(x))

\* sub in s
In(sub, s) ==
    \E i \in 1..(Len(s) - Len(sub) + 1) : SubSeq(s, i, i + Len(sub) - 1) = sub

vm_unit_of(vm_name) ==
    IF In("(µg ER)", vm_name) THEN "µg ER"
    ELSE IF In("(µg)", vm_name) THEN "µg"
    ELSE IF In("(mg)", vm_name) THEN "mg"
    ELSE ""

\* clean_vm_label: name.split(" (")[0]
clean_vm_label(name) ==
    LET at == {i \in 1..(Len(name) - 1) : SubSeq(name, i, i + 1) = " ("}
    IN  IF at = {} THEN name
        ELSE SubSeq(name, 1, (CHOOSE i \in at : \A j \in at : i <= j) - 1)

\* the quantity text of a vitamin/mineral in the unit of its name
fmt_vm(vm, v, up) ==
    LET unit == vm_unit_of(vm)
    IN  IF unit = "µg ER" THEN fmt_uger(v, 1, up)
        ELSE IF unit = "µg" THEN fmt_ug(v, 1, up)
        ELSE fmt_mg_int(v)

----------------------------------------------------------------------------
(* The script: widgets -> globals *)

\* vm_options of the sidebar multiselect
vm_options ==
    <<"Vitamina A (µg ER)", "Vitamina D (µg)", "Calcio (mg)", "Hierro (mg)",
      "Zinc (mg)", "Potasio (mg)", "Vitamina C (mg)", "Vitamina E (mg)",
      "Vitamina B12 (µg)", "Ácido fólico (µg)">>

PorPorcion == "Por porción"
Por100 == "Por 100 g/mL"
Solido == "Sólido (g)"
Liquido == "Líquido (mL)"

\* the format names (their long dash written "-")
Figura1 == "Figura 1 - Vertical estándar"
Figura3 == "Figura 3 - Simplificado"
Figura4 == "Figura 4 - Tabular"
Figura5 == "Figura 5 - Lineal"
Formats == {Figura1, Figura3, Figura4, Figura5}

\* the widget values a fresh session shows
DefaultWidgets ==
    [physical_state |-> Solido,
     input_basis |-> PorPorcion,
     portion_size |-> "50",
     servings_per_pack |-> "1",
     format_choice |-> Figura1,
     include_kj |-> FALSE,
     selected_vm |-> SubSeq(vm_options, 1, 5),
     footnote_base |->
         "Proteína, Vitamina D, Hierro, Calcio, Zinc, Vitamina A y fibra",
     fat_total_input |-> "5",
     sat_fat_input |-> "2",
     trans_fat_input_mg |-> "0",
     carb_input |-> "20",
     sugars_total_input |-> "10",
     sugars_added_input |-> "8",
     fiber_input |-> "2",
     protein_input |-> "3",
     sodium_input_mg |-> "150",
     vm_values |-> [i \in 1..5 |-> "0"]]

\* the text fields read through as_num (lines 186-259); the text of the
\* vitamin/mineral fields is kept in selection order
Inputs(w) ==
    LET trans_fat_input_mg == Float(as_num(w.trans_fat_input_mg))
    IN  [portion_size |-> Float(as_num(w.portion_size)),
         portion_unit |-> IF In("Sólido", w.physical_state) THEN "g" ELSE "mL",
         servings_per_pack |-> Float(as_num(w.servings_per_pack)),
         fat_total_input |-> Float(as_num(w.fat_total_input)),
         sat_fat_input |-> Float(as_num(w.sat_fat_input)),
         trans_fat_input_mg |-> trans_fat_input_mg,
         \* mg / 1000.0 (the model enters whole milligrams)
         trans_fat_input_g |-> trans_fat_input_mg \div 1000,
         carb_input |-> Float(as_num(w.carb_input)),
         sugars_total_input |-> Float(as_num(w.sugars_total_input)),
         sugars_added_input |-> Float(as_num(w.sugars_added_input)),
         fiber_input |-> Float(as_num(w.fiber_input)),
         protein_input |-> Float(as_num(w.protein_input)),
         sodium_input_mg |-> Float(as_num(w.sodium_input_mg)),
         vm_values |-> [i \in 1..Len(w.selected_vm) |->
                            Float(as_num(w.vm_values[i]))]]

Normalize_swapped(input_basis, i, up) ==
    LET p == i.portion_size
        PP(x) == IF input_basis = PorPorcion THEN x
                 ELSE per100_from_portion(x, p, up)
        C100(x) == IF input_basis = PorPorcion
                   THEN portion_from_per100(x, p, up) ELSE x
    IN  [fat_total_pp |-> PP(i.fat_total_input),
         sat_fat_pp |-> PP(i.sat_fat_input),
         trans_fat_pp |-> PP(i.trans_fat_input_g),
         carb_pp |-> PP(i.carb_input),
         sugars_total_pp |-> PP(i.sugars_total_input),
         sugars_added_pp |-> PP(i.sugars_added_input),
         fiber_pp |-> PP(i.fiber_input),
         protein_pp |-> PP(i.protein_input),
         sodium_pp_mg |-> PP(i.sodium_input_mg),
         fat_total_100 |-> C100(i.fat_total_input),
         sat_fat_100 |-> C100(i.sat_fat_input),
         trans_fat_100 |-> C100(i.trans_fat_input_g),
         carb_100 |-> C100(i.carb_input),
         sugars_total_100 |-> C100(i.sugars_total_input),
         sugars_added_100 |-> C100(i.sugars_added_input),
         fiber_100 |-> C100(i.fiber_input),
         protein_100 |-> C100(i.protein_input),
         sodium_100_mg |-> C100(i.sodium_input_mg),
         trans_100_mg |-> C100(i.trans_fat_input_g) * 1000,
         trans_pp_mg |-> PP(i.trans_fat_input_g) * 1000,
         vm_pp |-> [k \in 1..Len(i.vm_values) |-> PP(i.vm_values[k])],
         vm_100 |-> [k \in 1..Len(i.vm_values) |-> C100(i.vm_values[k])]]

\* normalisation (lines 264-320): the chosen basis takes the inputs as they
\* are, the other basis is converted from them; trans fat goes through as
\* grams and is turned back into mg afterwards
Normalize(input_basis, i, up) ==
    LET p == i.portion_size
        PP(x) == IF input_basis = PorPorcion THEN x
                 ELSE portion_from_per100(x, p, up)
        C100(x) == IF input_basis = PorPorcion
                   THEN per100_from_portion(x, p, up) ELSE x
    IN  [fat_total_pp |-> PP(i.fat_total_input),
         sat_fat_pp |-> PP(i.sat_fat_input),
         trans_fat_pp |-> PP(i.trans_fat_input_g),
         carb_pp |-> PP(i.carb_input),
         sugars_total_pp |-> PP(i.sugars_total_input),
         sugars_added_pp |-> PP(i.sugars_added_input),
         fiber_pp |-> PP(i.fiber_input),
         protein_pp |-> PP(i.protein_input),
         sodium_pp_mg |-> PP(i.sodium_input_mg),
         fat_total_100 |-> C100(i.fat_total_input),
         sat_fat_100 |-> C100(i.sat_fat_input),
         trans_fat_100 |-> C100(i.trans_fat_input_g),
         carb_100 |-> C100(i.carb_input),
         sugars_total_100 |-> C100(i.sugars_total_input),
         sugars_added_100 |-> C100(i.sugars_added_input),
         fiber_100 |-> C100(i.fiber_input),
         protein_100 |-> C100(i.protein_input),
         sodium_100_mg |-> C100(i.sodium_input_mg),
         trans_100_mg |-> C100(i.trans_fat_input_g) * 1000,
         trans_pp_mg |-> PP(i.trans_fat_input_g) * 1000,
         vm_pp |-> [k \in 1..Len(i.vm_values) |-> PP(i.vm_values[k])],
         vm_100 |-> [k \in 1..Len(i.vm_values) |-> C100(i.vm_values[k])]]

\* the larger of two numbers
Max(a, b) == IF a >= b THEN a ELSE b

\* the conversion with the factor cut to 4.18
KJ_short_factor(kcal) == RoundDiv((kcal \div Scale) * 4180, 1000, TRUE)

\* round(kcal * 4.184) of a whole kcal
KJ(kcal) == RoundDiv((kcal \div Scale) * 4184, 1000, TRUE)

Energy_scaled(n, portion_size, include_kj, is_liquid, up) ==
    LET kcal_pp == kcal_from_macros(n.fat_total_pp, n.carb_pp, n.protein_pp,
                                    DefaultGrams, DefaultGrams, up)
        kcal_100 == per100_from_portion(kcal_pp, portion_size, up)
        pct_kcal_sug_add_pp ==
            pct_energy_from_nutrient_kcal(4 * n.sugars_added_pp, kcal_pp, up)
        pct_kcal_sat_fat_pp ==
            pct_energy_from_nutrient_kcal(9 * n.sat_fat_pp, kcal_pp, up)
        pct_kcal_trans_pp ==
            pct_energy_from_nutrient_kcal(9 * n.trans_fat_pp, kcal_pp, up)
    IN  [kcal_pp |-> kcal_pp,
         kcal_100 |-> kcal_100,
         kj_pp |-> IF include_kj THEN KJ(kcal_pp) ELSE NoneFloat,
         kj_100 |-> IF include_kj THEN KJ(kcal_100) ELSE NoneFloat,
         pct_kcal_sug_add_pp |-> pct_kcal_sug_add_pp,
         pct_kcal_sat_fat_pp |-> pct_kcal_sat_fat_pp,
         pct_kcal_trans_pp |-> pct_kcal_trans_pp,
         fop_sugar |-> pct_kcal_sug_add_pp >= 10 * Scale,
         fop_sat |-> pct_kcal_sat_fat_pp >= 10 * Scale,
         fop_trans |-> pct_kcal_trans_pp >= 1 * Scale,
         fop_sodium |->
             IF is_liquid /\ kcal_100 = 0
             THEN n.sodium_100_mg >= 40 * Scale
             ELSE \/ n.sodium_100_mg >= 300 * Scale
                  \/ n.sodium_pp_mg >= Max(kcal_pp, 1 * Scale)]

\* energy and front-of-pack criteria (lines 325-343)
Energy(n, portion_size, include_kj, is_liquid, up) ==
    LET kcal_pp == kcal_from_macros(n.fat_total_pp, n.carb_pp, n.protein_pp,
                                    DefaultGrams, DefaultGrams, up)
        kcal_100 == kcal_from_macros(n.fat_total_100, n.carb_100,
                                     n.protein_100,
                                     DefaultGrams, DefaultGrams, up)
        pct_kcal_sug_add_pp ==
            pct_energy_from_nutrient_kcal(4 * n.sugars_added_pp, kcal_pp, up)
        pct_kcal_sat_fat_pp ==
            pct_energy_from_nutrient_kcal(9 * n.sat_fat_pp, kcal_pp, up)
        pct_kcal_trans_pp ==
            pct_energy_from_nutrient_kcal(9 * n.trans_fat_pp, kcal_pp, up)
    IN  [kcal_pp |-> kcal_pp,
         kcal_100 |-> kcal_100,
         kj_pp |-> IF include_kj THEN KJ(kcal_pp) ELSE NoneFloat,
         kj_100 |-> IF include_kj THEN KJ(kcal_100) ELSE NoneFloat,
         pct_kcal_sug_add_pp |-> pct_kcal_sug_add_pp,
         pct_kcal_sat_fat_pp |-> pct_kcal_sat_fat_pp,
         pct_kcal_trans_pp |-> pct_kcal_trans_pp,
         fop_sugar |-> pct_kcal_sug_add_pp >= 10 * Scale,
         fop_sat |-> pct_kcal_sat_fat_pp >= 10 * Scale,
         fop_trans |-> pct_kcal_trans_pp >= 1 * Scale,
         fop_sodium |->
             IF is_liquid /\ kcal_100 = 0
             THEN n.sodium_100_mg >= 40 * Scale
             ELSE \/ n.sodium_100_mg >= 300 * Scale
                  \/ n.sodium_pp_mg >= Max(kcal_pp, 1 * Scale)]

\* the texts shared by the four figures (lines 395-405)
Contents(w, i, e, is_liquid, up) ==
    [per100_label |-> IF ~is_liquid THEN "Por 100 g" ELSE "Por 100 mL",
     perportion_label |-> "Por porción",
     portion_label_text |->
         "Tamaño de porción: 1 unidad (" \o ToString(IntRound(i.portion_size))
         \o i.portion_unit \o ")",
     servings_label_text |->
         "Número de porciones por envase: Aprox. "
         \o fmt_g_only(i.servings_per_pack, 0, up),
     cal_100_txt |->
         fmt_kcal(e.kcal_100)
         \o (IF w.include_kj THEN " (" \o ToString(e.kj_100) \o " kJ)" ELSE ""),
     cal_pp_txt |->
         fmt_kcal(e.kcal_pp)
         \o (IF w.include_kj THEN " (" \o ToString(e.kj_pp) \o " kJ)" ELSE "")]

\* one run of the script up to the drawing functions: every global the
\* figures read
Script(w, up) ==
    LET is_liquid == In("Líquido", w.physical_state)
    IN  Then(Inputs(w), LAMBDA i :
        Then(Normalize(w.input_basis, i, up), LAMBDA n :
        Then(Energy(n, i.portion_size, w.include_kj, is_liquid, up), LAMBDA e :
        Then(Contents(w, i, e, is_liquid, up), LAMBDA c :
            [input_basis |-> w.input_basis,
             format_choice |-> w.format_choice,
             include_kj |-> w.include_kj,
             selected_vm |-> w.selected_vm,
             footnote_base |-> w.footnote_base,
             is_liquid |-> is_liquid]
            @@ i @@ n @@ e @@ c))))

----------------------------------------------------------------------------
(* Drawing: the figures as sequences of draw calls *)

THICK == 4
MEDIUM == 3
THIN == 2
PADDING == 18
ROW_H == 42
TITLE_FS == 30
BASE_FS == 22
SMALL_FS == 19

\* float(n) of a pixel count: coordinates are floats
F(n) == n * Scale

FONT_REG(size) == [size |-> size, bold |-> FALSE]
FONT_BOLD(size) == [size |-> size, bold |-> TRUE]

\* measure: the bounding box <<w, h>> of s in a font.  The metrics belong to
\* the font file; the model takes 3/5 of the size per character and the
\* size as height.
measure(s, font) == <<Len(s) * ((font.size * 3) \div 5), font.size>>

\* draw_rect, draw_line, text: the call as it reaches the canvas
draw_rect(xy, w) == [op |-> "rect", xy |-> xy, w |-> w]
draw_line(xy1, xy2, w) == [op |-> "line", xy |-> <<xy1, xy2>>, w |-> w]
text(xy, s, font, align) ==
    [op |-> "text", xy |-> xy, s |-> s, font |-> font, align |-> align]

(* A drawing function is its statements in program order.  Statements that  *)
(* use the running y are written relative to it:                            *)
(*   Y(d)                     y += d  (y = d the first time)                *)
(*   HLine(w)                 draw_line(draw, (THIN, y), (W-THIN, y), w)    *)
(*   VLine(x, dy, w)          draw_line(draw, (x, y+dy), (x, H-THIN), w)    *)
(*   TextAt(x, dy, s, f, al)  text(draw, (x, y+dy), s, f, al)               *)
(* A call with fixed coordinates stands for itself.                         *)
Y(d) == [op |-> "y", d |-> d]
HLine(w) == [op |-> "hline", w |-> w]
VLine(x, dy, w) == [op |-> "vline", x |-> x, dy |-> dy, w |-> w]
TextAt(x, dy, s, font, align) ==
    [op |-> "textat", x |-> x, dy |-> dy, s |-> s, font |-> font,
     align |-> align]

\* the call a statement makes when the running y is y
Call(st, y, W, H) ==
    CASE st.op = "hline" ->
             draw_line(<<F(THIN), y>>, <<F(W - THIN), y>>, st.w)
      [] st.op = "vline" ->
             draw_line(<<st.x, y + st.dy>>, <<st.x, F(H - THIN)>>, st.w)
      [] st.op = "textat" ->
             text(<<st.x, y + st.dy>>, st.s, st.font, st.align)
      [] OTHER -> st

\* how far the statements p[lo..hi] advance y
RECURSIVE Advance(_, _, _)
Advance(p, lo, hi) ==
    IF lo > hi THEN 0
    ELSE IF lo = hi THEN (IF p[lo].op = "y" THEN p[lo].d ELSE 0)
    ELSE Advance(p, lo, (lo + hi) \div 2)
         + Advance(p, (lo + hi) \div 2 + 1, hi)

\* the calls of the statements p[lo..hi], in order, y being the running y
\* before p[lo]: those of the first half, then those of the second half
RECURSIVE Exec(_, _, _, _, _, _)
Exec(p, lo, hi, y, W, H) ==
    IF lo > hi THEN <<>>
    ELSE IF lo = hi
    THEN (IF p[lo].op = "y" THEN <<>> ELSE <<Call(p[lo], y, W, H)>>)
    ELSE Exec(p, lo, (lo + hi) \div 2, y, W, H)
         \o Then(y + Advance(p, lo, (lo + hi) \div 2), LAMBDA y2 :
                Exec(p, (lo + hi) \div 2 + 1, hi, y2, W, H))

\* save_png(img, name) of a canvas of W x H on which `statements` ran
save_png(name, W, H, statements) ==
    Then(statements, LAMBDA p :
        [file |-> name, W |-> W, H |-> H,
         ops |-> Exec(p, 1, Len(p), 0, W, H)])

RECURSIVE FlattenFrom(_, _)
FlattenFrom(ss, k) ==
    IF k > Len(ss) THEN <<>> ELSE ss[k] \o FlattenFrom(ss, k + 1)

\* the concatenation of a sequence of sequences
Flatten(ss) == Then(ss, LAMBDA v : FlattenFrom(v, 1))

\* the footnote with the text as typed, tail never stripped
Foot_unstripped(g) == "No es fuente significativa de " \o g.footnote_base

\* the footnote of every figure: the fixed phrase, then the stripped text
Foot(g) ==
    IF Strip(g.footnote_base) # ""
    THEN "No es fuente significativa de " \o Strip(g.footnote_base)
    ELSE "No es fuente significativa de "

\* a gram row of a table: (label, per 100, per portion, bold)
GramRow(label, v100, vpp, is_bold, up) ==
    <<label, fmt_g_only(v100, 1, up) \o " g", fmt_g_only(vpp, 1, up) \o " g",
      is_bold>>

\* MgRow handed the amounts in grams
MgRow_grams(label, v100, vpp, is_bold) ==
    <<label, fmt_mg_int(v100 \div 1000), fmt_mg_int(vpp \div 1000), is_bold>>

\* a milligram row of a table
MgRow(label, v100, vpp, is_bold) ==
    <<label, fmt_mg_int(v100), fmt_mg_int(vpp), is_bold>>

\* "for label, v100, vpp, is_bold in rows": a thin line, three texts, and
\* y advanced by ROW_H
RowLoop(rows, xl, x100, xpp) ==
    Then(rows, LAMBDA r :
        Flatten([k \in 1..Len(r) |->
            <<HLine(THIN),
              TextAt(xl, F(ROW_H) \div 2, r[k][1],
                     IF r[k][4] THEN FONT_BOLD(BASE_FS) ELSE FONT_REG(BASE_FS),
                     "left"),
              TextAt(x100, F(ROW_H) \div 2, r[k][2],
                     IF r[k][4] THEN FONT_BOLD(BASE_FS) ELSE FONT_REG(BASE_FS),
                     "right"),
              TextAt(xpp, F(ROW_H) \div 2, r[k][3],
                     IF r[k][4] THEN FONT_BOLD(BASE_FS) ELSE FONT_REG(BASE_FS),
                     "right"),
              Y(F(ROW_H))>>]))

\* "for vm in selected_vm" of the tables: an optional thin line, three texts
\* in the regular font, and y advanced by h
VmLoop(g, up, with_line, xl, x100, xpp, h) ==
    Flatten([k \in 1..Len(g.selected_vm) |->
        (IF with_line THEN <<HLine(THIN)>> ELSE <<>>)
        \o <<TextAt(xl, F(h) \div 2, clean_vm_label(g.selected_vm[k]),
                    FONT_REG(BASE_FS), "left"),
             TextAt(x100, F(h) \div 2,
                    fmt_vm(g.selected_vm[k], g.vm_100[k], up),
                    FONT_REG(BASE_FS), "right"),
             TextAt(xpp, F(h) \div 2,
                    fmt_vm(g.selected_vm[k], g.vm_pp[k], up),
                    FONT_REG(BASE_FS), "right"),
             Y(F(h))>>])

\* the pie with the line that closes the vitamin/mineral block drawn outside
\* "if selected_vm"
Pie_after_separator(g) ==
    <<HLine(THIN), Y(F(8)),
      TextAt(F(PADDING), F(4), Foot(g), FONT_REG(SMALL_FS), "left")>>

\* the pie of the tables: "y += 8" and the footnote at y + 4
Pie(g) ==
    <<Y(F(8)), TextAt(F(PADDING), F(4), Foot(g), FONT_REG(SMALL_FS), "left")>>

\* the rows of Figura 1, in the order of the list `rows`
rows_figure1(g, up) ==
    <<GramRow("Grasa total", g.fat_total_100, g.fat_total_pp, FALSE, up),
      GramRow("Grasa poliinsaturada", 0, 0, FALSE, up),
      GramRow("Grasa saturada", g.sat_fat_100, g.sat_fat_pp, TRUE, up),
      MgRow("Grasa trans", g.trans_100_mg, g.trans_pp_mg, TRUE),
      GramRow("Carbohidratos totales", g.carb_100, g.carb_pp, FALSE, up),
      GramRow("Fibra dietaria", g.fiber_100, g.fiber_pp, FALSE, up),
      GramRow("Azúcares totales", g.sugars_total_100, g.sugars_total_pp,
              FALSE, up),
      GramRow("Azúcares añadidos", g.sugars_added_100, g.sugars_added_pp,
              TRUE, up),
      GramRow("Proteína", g.protein_100, g.protein_pp, FALSE, up)>>

\* Figura 1 (vertical estandar)
draw_figure1_vertical(g, up) ==
    LET W == 1320
        left_col_w == 620
        col_w == (W - left_col_w) \div 2
        base_rows == 2 + 1 + 1 + 8 + 1
        vm_rows == Len(g.selected_vm)
        total_rows == base_rows + (IF vm_rows > 0 THEN vm_rows ELSE 0) + 2
        H == 180 + total_rows * ROW_H
        title_font == FONT_BOLD(TITLE_FS)
        h_title == measure("Información Nutricional", title_font)[2]
        font_small == FONT_REG(SMALL_FS)
        font_bold == FONT_BOLD(BASE_FS)
        font_reg == FONT_REG(BASE_FS)
        x1 == F(left_col_w)
        x2 == F(left_col_w + col_w)
    IN  save_png("fig1_vertical.png", W, H,
          <<draw_rect(<<F(THIN), F(THIN), F(W - THIN), F(H - THIN)>>, THICK),
            text(<<F(W) \div 2, F(PADDING + h_title \div 2)>>,
                 "Información Nutricional", title_font, "center"),
            Y(F(PADDING + h_title + 12)),
            HLine(THICK),
            Y(F(8)),
            TextAt(F(PADDING), F(6), g.portion_label_text, font_small, "left"),
            Y(F(ROW_H - 8)),
            TextAt(F(PADDING), 0, g.servings_label_text, font_small, "left"),
            Y(F(ROW_H - 10)),
            HLine(THICK),
            Y(F(6)),
            TextAt(F(PADDING), F(ROW_H \div 2), "Calorías (kcal)", font_bold,
                   "left"),
            VLine(x1, 0 - F(ROW_H \div 2), MEDIUM),
            VLine(x2, 0 - F(ROW_H \div 2), MEDIUM),
            TextAt(x1 + F(col_w) \div 2, 0 - F(6), g.per100_label, font_reg,
                   "center"),
            TextAt(x2 + F(col_w) \div 2, 0 - F(6), g.perportion_label,
                   font_reg, "center"),
            TextAt(x2 - F(10), F(ROW_H \div 2), g.cal_pp_txt, font_bold,
                   "right"),
            TextAt(x1 + F(col_w - 10), F(ROW_H \div 2), g.cal_100_txt,
                   font_bold, "right"),
            Y(F(ROW_H + 6)),
            HLine(THICK)>>
          \o RowLoop(rows_figure1(g, up), F(PADDING), x1 + F(col_w - 10),
                     x2 + F(col_w - 10))
          \o <<HLine(THICK),
               Y(F(6)),
               TextAt(F(PADDING), F(ROW_H) \div 2, "Sodio", FONT_BOLD(BASE_FS),
                      "left"),
               TextAt(x1 + F(col_w - 10), F(ROW_H) \div 2,
                      fmt_mg_int(g.sodium_100_mg), FONT_BOLD(BASE_FS), "right"),
               TextAt(x2 + F(col_w - 10), F(ROW_H) \div 2,
                      fmt_mg_int(g.sodium_pp_mg), FONT_BOLD(BASE_FS), "right"),
               Y(F(ROW_H + 6)),
               HLine(THICK)>>
          \o (IF g.selected_vm # <<>>
              THEN <<Y(F(4))>>
                   \o VmLoop(g, up, FALSE, F(PADDING), x1 + F(col_w - 10),
                             x2 + F(col_w - 10), ROW_H)
                   \o <<HLine(THIN)>>
              ELSE <<>>)
          \o Pie(g))

\* the rows of Figura 3 with a Proteína row before Sodio
rows_figure3_protein(g, up) ==
    <<GramRow("Grasa total", g.fat_total_100, g.fat_total_pp, FALSE, up),
      GramRow("Grasa saturada", g.sat_fat_100, g.sat_fat_pp, TRUE, up),
      MgRow("Grasa trans", g.trans_100_mg, g.trans_pp_mg, TRUE),
      GramRow("Carbohidratos totales", g.carb_100, g.carb_pp, FALSE, up),
      GramRow("Azúcares totales", g.sugars_total_100, g.sugars_total_pp,
              FALSE, up),
      GramRow("Azúcares añadidos", g.sugars_added_100, g.sugars_added_pp,
              TRUE, up),
      GramRow("Proteína", g.protein_100, g.protein_pp, FALSE, up),
      MgRow("Sodio", g.sodium_100_mg, g.sodium_pp_mg, TRUE)>>

\* the rows of Figura 3, in the order of the list `rows`
rows_figure3(g, up) ==
    <<GramRow("Grasa total", g.fat_total_100, g.fat_total_pp, FALSE, up),
      GramRow("Grasa saturada", g.sat_fat_100, g.sat_fat_pp, TRUE, up),
      MgRow("Grasa trans", g.trans_100_mg, g.trans_pp_mg, TRUE),
      GramRow("Carbohidratos totales", g.carb_100, g.carb_pp, FALSE, up),
      GramRow("Azúcares totales", g.sugars_total_100, g.sugars_total_pp,
              FALSE, up),
      GramRow("Azúcares añadidos", g.sugars_added_100, g.sugars_added_pp,
              TRUE, up),
      MgRow("Sodio", g.sodium_100_mg, g.sodium_pp_mg, TRUE)>>

\* Figura 3 (simplificado)
draw_figure3_simple(g, up) ==
    LET W == 1180
        left_col_w == 560
        col_w == (W - left_col_w) \div 2
        rows_count == 2 + 1 + 1 + 7 + 2
        H == 160 + rows_count * ROW_H
        title_font == FONT_BOLD(TITLE_FS)
        h_title == measure("Información Nutricional", title_font)[2]
        font_small == FONT_REG(SMALL_FS)
        font_bold == FONT_BOLD(BASE_FS)
        font_reg == FONT_REG(BASE_FS)
        x1 == F(left_col_w)
        x2 == F(left_col_w + col_w)
    IN  save_png("fig3_simplificado.png", W, H,
          <<draw_rect(<<F(THIN), F(THIN), F(W - THIN), F(H - THIN)>>, THICK),
            text(<<F(W) \div 2, F(PADDING + h_title \div 2)>>,
                 "Información Nutricional", title_font, "center"),
            Y(F(PADDING + h_title + 12)),
            HLine(THICK),
            Y(F(6)),
            TextAt(F(PADDING), F(6), g.portion_label_text, font_small, "left"),
            Y(F(ROW_H - 8)),
            TextAt(F(PADDING), 0, g.servings_label_text, font_small, "left"),
            Y(F(ROW_H - 10)),
            HLine(THICK),
            VLine(x1, 0 - F(ROW_H), MEDIUM),
            VLine(x2, 0 - F(ROW_H), MEDIUM),
            Y(F(6)),
            TextAt(F(PADDING), F(ROW_H \div 2), "Calorías (kcal)", font_bold,
                   "left"),
            TextAt(x1 + F(col_w) \div 2, 0 - F(6), g.per100_label, font_reg,
                   "center"),
            TextAt(x2 + F(col_w) \div 2, 0 - F(6), g.perportion_label,
                   font_reg, "center"),
            TextAt(x1 + F(col_w - 10), F(ROW_H \div 2), g.cal_100_txt,
                   font_bold, "right"),
            TextAt(x2 + F(col_w - 10), F(ROW_H \div 2), g.cal_pp_txt,
                   font_bold, "right"),
            Y(F(ROW_H + 6)),
            HLine(THICK)>>
          \o RowLoop(rows_figure3(g, up), F(PADDING), x1 + F(col_w - 10),
                     x2 + F(col_w - 10))
          \o <<HLine(THIN)>>
          \o Pie(g))

\* the rows of Figura 4, in the order of the list `rows`
rows_figure4(g, up) ==
    <<GramRow("Grasa total", g.fat_total_100, g.fat_total_pp, FALSE, up),
      GramRow("Grasa saturada", g.sat_fat_100, g.sat_fat_pp, TRUE, up),
      MgRow("Grasa Trans", g.trans_100_mg, g.trans_pp_mg, TRUE),
      MgRow("Sodio", g.sodium_100_mg, g.sodium_pp_mg, TRUE),
      GramRow("Carbohidratos totales", g.carb_100, g.carb_pp, FALSE, up),
      GramRow("Fibra dietaria", g.fiber_100, g.fiber_pp, FALSE, up),
      GramRow("Azúcares totales", g.sugars_total_100, g.sugars_total_pp,
              FALSE, up),
      GramRow("Azúcares añadidos", g.sugars_added_100, g.sugars_added_pp,
              TRUE, up),
      GramRow("Proteína", g.protein_100, g.protein_pp, FALSE, up)>>

\* Figura 4 (tabular)
draw_figure4_tabular(g, up) ==
    LET W == 1500
        col0_w == 370
        col1_w == 470
        col2_w == 330
        col3_w == 330
        H == 1100
        title_font == FONT_BOLD(TITLE_FS)
        title == "Información Nutricional"
        h_title == measure(title, title_font)[2]
        x1 == F(col0_w)
        x2 == F(col0_w + col1_w)
        x3 == F(col0_w + col1_w + col2_w)
        font_reg == FONT_REG(BASE_FS)
        font_bold == FONT_BOLD(BASE_FS)
        \* int(ROW_H * 0.9)
        small_h == (ROW_H * 9) \div 10
    IN  save_png("fig4_tabular.png", W, H,
          <<draw_rect(<<F(THIN), F(THIN), F(W - THIN), F(H - THIN)>>, THICK),
            Y(F(PADDING)),
            TextAt(F(W) \div 2, F(h_title) \div 2, title, title_font, "center"),
            Y(F(h_title + 8)),
            HLine(THICK),
            VLine(x1, 0, MEDIUM),
            VLine(x2, 0, MEDIUM),
            VLine(x3, 0, MEDIUM),
            Y(F(6)),
            TextAt(x1 + F(col1_w) \div 2, 0 - F(6), "Calorías", font_bold,
                   "center"),
            TextAt(x2 + F(col2_w) \div 2, 0 - F(6), g.per100_label, font_reg,
                   "center"),
            TextAt(x3 + F(col3_w) \div 2, 0 - F(6), g.perportion_label,
                   font_reg, "center"),
            HLine(THIN),
            TextAt(F(PADDING), F(ROW_H) \div 2, g.portion_label_text,
                   FONT_REG(SMALL_FS), "left"),
            TextAt(x1 + F(10), F(ROW_H) \div 2, "Calorías (kcal)", font_bold,
                   "left"),
            TextAt(x2 + F(col2_w - 12), F(ROW_H) \div 2, g.cal_100_txt,
                   font_bold, "right"),
            TextAt(x3 + F(col3_w - 12), F(ROW_H) \div 2, g.cal_pp_txt,
                   font_bold, "right"),
            Y(F(ROW_H)),
            HLine(THIN),
            TextAt(F(PADDING), F(small_h) \div 2, g.servings_label_text,
                   FONT_REG(SMALL_FS), "left"),
            Y(F(small_h))>>
          \o RowLoop(rows_figure4(g, up), x1 + F(10), x2 + F(col2_w - 12),
                     x3 + F(col3_w - 12))
          \o (IF g.selected_vm # <<>>
              THEN <<HLine(THIN)>>
                   \o VmLoop(g, up, TRUE, x1 + F(10), x2 + F(col2_w - 12),
                             x3 + F(col3_w - 12), small_h)
              ELSE <<>>)
          \o <<HLine(THIN)>>
          \o Pie(g))

\* the segments of the selected vitamins/minerals in the linear format
VmParts(g, values, up) ==
    [k \in 1..Len(g.selected_vm) |->
        <<", " \o clean_vm_label(g.selected_vm[k]) \o " "
          \o fmt_vm(g.selected_vm[k], values[k], up), FALSE>>]

\* parts_100 of Figura 5: (segment, bold) in the order they are appended
parts_100(g, up) ==
    <<<<"Calorías " \o fmt_kcal(g.kcal_100), TRUE>>,
      <<", Grasa total " \o fmt_g_only(g.fat_total_100, 1, up) \o " g", FALSE>>,
      <<", Sodio " \o ToString(IntRound(g.sodium_100_mg)) \o " mg", TRUE>>,
      <<", Carbohidratos totales " \o fmt_g_only(g.carb_100, 1, up) \o " g",
        FALSE>>,
      <<", Azúcares añadidos " \o fmt_g_only(g.sugars_added_100, 1, up)
        \o " g", TRUE>>,
      <<", Proteína " \o fmt_g_only(g.protein_100, 1, up) \o " g", FALSE>>>>
    \o VmParts(g, g.vm_100, up)

\* parts_pp of Figura 5
parts_pp(g, up) ==
    <<<<"Tamaño de porción: 1 unidad (" \o ToString(IntRound(g.portion_size))
        \o g.portion_unit \o ")", FALSE>>,
      <<", Número de porciones por envase: Aprox. "
        \o fmt_g_only(g.servings_per_pack, 0, up), FALSE>>,
      <<", Calorías " \o fmt_kcal(g.kcal_pp), TRUE>>,
      <<", Grasa total " \o fmt_g_only(g.fat_total_pp, 1, up) \o " g", FALSE>>,
      <<", Sodio " \o ToString(IntRound(g.sodium_pp_mg)) \o " mg", TRUE>>,
      <<", Carbohidratos totales " \o fmt_g_only(g.carb_pp, 1, up) \o " g",
        FALSE>>,
      <<", Azúcares añadidos " \o fmt_g_only(g.sugars_added_pp, 1, up)
        \o " g", TRUE>>,
      <<", Proteína " \o fmt_g_only(g.protein_pp, 1, up) \o " g", FALSE>>>>
    \o VmParts(g, g.vm_pp, up)

\* "for seg, bold in parts" from the k-th part on, x being where it starts:
\* the segment is drawn at (x, y) and x advances by its measured width
RECURSIVE PaintFrom(_, _, _)
PaintFrom(parts, k, x) ==
    IF k > Len(parts) THEN <<>>
    ELSE <<TextAt(x, 0, parts[k][1], IF parts[k][2] THEN FONT_BOLD(BASE_FS)
                                     ELSE FONT_REG(BASE_FS), "left")>>
         \o Then(x + F(measure(parts[k][1],
                               IF parts[k][2] THEN FONT_BOLD(BASE_FS)
                               ELSE FONT_REG(BASE_FS))[1]),
                 LAMBDA x2 : PaintFrom(parts, k + 1, x2))

\* "x = PADDING; for seg, bold in parts: ..."
PaintLine(parts) == Then(parts, LAMBDA r : PaintFrom(r, 1, F(PADDING)))

\* Figura 5 (lineal)
draw_figure5_linear(g, up) ==
    LET W == 1600
        H == 340 + 40 * Max(1, Len(g.selected_vm))
        title_font == FONT_BOLD(TITLE_FS - 2)
    IN  save_png("fig5_lineal.png", W, H,
          <<draw_rect(<<F(THIN), F(THIN), F(W - THIN), F(H - THIN)>>, THICK),
            Y(F(PADDING + 8)),
            TextAt(F(PADDING), 0, "Información nutricional (100 g o 100 mL):",
                   title_font, "left"),
            Y(F(44))>>
          \o PaintLine(parts_100(g, up))
          \o <<Y(F(44)),
               TextAt(F(PADDING), 0, "Información nutricional (porción):",
                      title_font, "left"),
               Y(F(44))>>
          \o PaintLine(parts_pp(g, up))
          \o <<Y(F(46)),
               TextAt(F(PADDING), 0, Foot(g), FONT_REG(SMALL_FS), "left")>>)

\* build_png_buffer: the figure of the chosen format, Figura 1 otherwise
build_png_buffer(choice, g, up) ==
    IF In("Figura 1", choice) THEN draw_figure1_vertical(g, up)
    ELSE IF In("Figura 3", choice) THEN draw_figure3_simple(g, up)
    ELSE IF In("Figura 4", choice) THEN draw_figure4_tabular(g, up)
    ELSE IF In("Figura 5", choice) THEN draw_figure5_linear(g, up)
    ELSE draw_figure1_vertical(g, up)

----------------------------------------------------------------------------
(* The session: the page holds its widgets; changing one widget runs the   *)
(* whole script again (inputs, normalisation, energy, texts, figure)       *)

\* the texts typed into the form in the model
PortionTexts == {"50", "30", "0", "250"}
FatTexts == {"5", "5,3", "0.3"}
SatFatTexts == {"2", "1.5"}
TransTexts == {"0", "820", "5"}
CarbTexts == {"20", "7.25"}
SugarsTotalTexts == {"10", "6"}
SugarsAddedTexts == {"8", "0"}
FiberTexts == {"2", "0,5"}
ProteinTexts == {"3", "1.5"}
SodiumTexts == {"150", "47"}
VmTexts == {"0", "2.5"}
ServingsTexts == {"1", "10", "2.5", "0"}
FootnoteTexts ==
    {DefaultWidgets.footnote_base, "", "   ", " fibra y hierro "}
\* the micronutrients the model selects and deselects one by one
VmToggled == {vm_options[1], vm_options[3], vm_options[6]}

\* the nutrient fields, and how many of them hold another text than the
\* default one
NutrientFields ==
    {"fat_total_input", "sat_fat_input", "trans_fat_input_mg", "carb_input",
     "sugars_total_input", "sugars_added_input", "fiber_input",
     "protein_input", "sodium_input_mg"}
Edited(w) == Cardinality({f \in NutrientFields : w[f] # DefaultWidgets[f]})

\* s without its k-th element
Remove(s, k) == SubSeq(s, 1, k - 1) \o SubSeq(s, k + 1, Len(s))

\* one run of the script with the widgets at w
Rerun(w) ==
    \E up \in BOOLEAN :
        /\ widgets' = w
        /\ run' = Script(w, up)
        /\ img' = build_png_buffer(w.format_choice, run', up)
        /\ UNCHANGED fnvars

\* the page with the widget `field` holding v
With(field, v) == [widgets EXCEPT ![field] = v]

\* the model edits at most MaxEdited nutrient fields away from their defaults
Editable(field, s) == Edited(With(field, s)) <= MaxEdited

Set_physical_state(v) ==
    /\ widgets.physical_state # v
    /\ Rerun(With("physical_state", v))

Set_input_basis(v) ==
    /\ widgets.input_basis # v
    /\ Rerun(With("input_basis", v))

Set_portion_size(s) ==
    /\ widgets.portion_size # s
    /\ Rerun(With("portion_size", s))

Set_servings_per_pack(s) ==
    /\ widgets.servings_per_pack # s
    /\ Rerun(With("servings_per_pack", s))

Set_format_choice(v) ==
    /\ widgets.format_choice # v
    /\ Rerun(With("format_choice", v))

Set_include_kj(v) ==
    /\ widgets.include_kj # v
    /\ Rerun(With("include_kj", v))

Set_footnote_base(s) ==
    /\ widgets.footnote_base # s
    /\ Rerun(With("footnote_base", s))

Set_fat_total_input(s) ==
    /\ widgets.fat_total_input # s
    /\ Editable("fat_total_input", s)
    /\ Rerun(With("fat_total_input", s))

Set_sat_fat_input(s) ==
    /\ widgets.sat_fat_input # s
    /\ Editable("sat_fat_input", s)
    /\ Rerun(With("sat_fat_input", s))

Set_trans_fat_input_mg(s) ==
    /\ widgets.trans_fat_input_mg # s
    /\ Editable("trans_fat_input_mg", s)
    /\ Rerun(With("trans_fat_input_mg", s))

Set_carb_input(s) ==
    /\ widgets.carb_input # s
    /\ Editable("carb_input", s)
    /\ Rerun(With("carb_input", s))

Set_sugars_total_input(s) ==
    /\ widgets.sugars_total_input # s
    /\ Editable("sugars_total_input", s)
    /\ Rerun(With("sugars_total_input", s))

Set_sugars_added_input(s) ==
    /\ widgets.sugars_added_input # s
    /\ Editable("sugars_added_input", s)
    /\ Rerun(With("sugars_added_input", s))

Set_fiber_input(s) ==
    /\ widgets.fiber_input # s
    /\ Editable("fiber_input", s)
    /\ Rerun(With("fiber_input", s))

Set_protein_input(s) ==
    /\ widgets.protein_input # s
    /\ Editable("protein_input", s)
    /\ Rerun(With("protein_input", s))

Set_sodium_input_mg(s) ==
    /\ widgets.sodium_input_mg # s
    /\ Editable("sodium_input_mg", s)
    /\ Rerun(With("sodium_input_mg", s))

\* the multiselect: an option is added at the end of the selection and its
\* text field appears holding "0"
Select_vm(vm) ==
    /\ \A k \in 1..Len(widgets.selected_vm) : widgets.selected_vm[k] # vm
    /\ Rerun([widgets EXCEPT !.selected_vm = Append(@, vm),
                             !.vm_values = Append(@, "0")])

\* the multiselect: the k-th selected option is removed, with its text field
Deselect_vm(k) ==
    /\ k \in 1..Len(widgets.selected_vm)
    /\ Rerun([widgets EXCEPT !.selected_vm = Remove(@, k),
                             !.vm_values = Remove(@, k)])

\* the multiselect is emptied
Clear_vm ==
    /\ widgets.selected_vm # <<>>
    /\ Rerun([widgets EXCEPT !.selected_vm = <<>>, !.vm_values = <<>>])

\* the text field of the k-th selected micronutrient
Set_vm_value(k, s) ==
    /\ k \in 1..Len(widgets.selected_vm)
    /\ widgets.vm_values[k] # s
    /\ Rerun([widgets EXCEPT !.vm_values[k] = s])

\* a fresh session: the script has run once on the default widget values
Init ==
    /\ widgets = DefaultWidgets
    /\ \E up \in BOOLEAN :
           /\ run = Script(DefaultWidgets, up)
           /\ img = build_png_buffer(DefaultWidgets.format_choice, run, up)
    /\ fn = "none"
    /\ args = <<>>
    /\ ret = 0

\* amounts: the basis, the portion, the nutrient fields, one micronutrient
\* field
NextAmounts ==
    \/ \E v \in {PorPorcion, Por100} : Set_input_basis(v)
    \/ \E s \in PortionTexts : Set_portion_size(s)
    \/ \E s \in FatTexts : Set_fat_total_input(s)
    \/ \E s \in SatFatTexts : Set_sat_fat_input(s)
    \/ \E s \in TransTexts : Set_trans_fat_input_mg(s)
    \/ \E s \in CarbTexts : Set_carb_input(s)
    \/ \E s \in SugarsTotalTexts : Set_sugars_total_input(s)
    \/ \E s \in SugarsAddedTexts : Set_sugars_added_input(s)
    \/ \E s \in FiberTexts : Set_fiber_input(s)
    \/ \E s \in ProteinTexts : Set_protein_input(s)
    \/ \E s \in SodiumTexts : Set_sodium_input_mg(s)
    \/ \E s \in VmTexts : Set_vm_value(3, s)

Spec == Init /\ [][NextAmounts]_vars

\* layout: the format, the basis, trans fat, and the micronutrient selection
NextLabel ==
    \/ \E v \in Formats : Set_format_choice(v)
    \/ \E v \in {PorPorcion, Por100} : Set_input_basis(v)
    \/ \E s \in {"0", "820"} : Set_trans_fat_input_mg(s)
    \/ \E vm \in VmToggled : Select_vm(vm)
    \/ \E k \in {j \in 1..Len(widgets.selected_vm) :
                    widgets.selected_vm[j] \in VmToggled} : Deselect_vm(k)
    \/ Clear_vm
    \/ \E s \in {"0", "2.5"} : Set_vm_value(1, s)

SpecLabel == Init /\ [][NextLabel]_vars

\* texts: the format, the physical state, servings, footnote, kJ
NextText ==
    \/ \E v \in Formats : Set_format_choice(v)
    \/ \E v \in {Solido, Liquido} : Set_physical_state(v)
    \/ \E s \in PortionTexts : Set_portion_size(s)
    \/ \E s \in ServingsTexts : Set_servings_per_pack(s)
    \/ \E s \in FootnoteTexts : Set_footnote_base(s)
    \/ \E v \in BOOLEAN : Set_include_kj(v)

SpecText == Init /\ [][NextText]_vars

----------------------------------------------------------------------------
(* Function harness: each helper applied once to arguments from bounded     *)
(* sets, starting from the idle harness                                      *)

Alphabet == {" ", "0", "1", "5", ".", ",", "-", "n", "a", "i", "f", "x"}

RECURSIVE TextsUpTo(_)
TextsUpTo(n) ==
    IF n = 0 THEN {""}
    ELSE LET shorter == TextsUpTo(n - 1)
         IN  shorter \cup {t \o c : t \in shorter, c \in Alphabet}

\* amounts (thousandths) given to the conversions: every small amount, where
\* the 2-decimal rounding is coarsest, and some label-sized ones
Amounts == (0 - 5)..MaxMilli \cup {820, 2724, 5000, 50000, 150000}

\* portion sizes given to the conversions (thousandths)
PortionSizes ==
    {NoneFloat, 0 - 50000, 0, 1000, 30000, 50000, 83000, 100000, 181000,
     250000, 400000}

\* gram amounts given to kcal_from_macros (thousandths), None included
MacroGrams == {NoneFloat, 0, 300, 500, 5000, 10000, 20000}
ExtraGrams == {NoneFloat, 0, 500, 1000}

Call_as_num(x) ==
    /\ fn = "none"
    /\ fn' = "as_num"
    /\ args' = <<x>>
    /\ ret' = as_num(x)
    /\ UNCHANGED appvars

Call_per100_from_portion(v, p, up) ==
    /\ fn = "none"
    /\ fn' = "per100_from_portion"
    /\ args' = <<v, p>>
    /\ ret' = per100_from_portion(v, p, up)
    /\ UNCHANGED appvars

Call_portion_from_per100(v, p, up) ==
    /\ fn = "none"
    /\ fn' = "portion_from_per100"
    /\ args' = <<v, p>>
    /\ ret' = portion_from_per100(v, p, up)
    /\ UNCHANGED appvars

\* the result of per100_from_portion(v, p) converted back with the same p
Call_round_trip(up) ==
    /\ fn = "per100_from_portion"
    /\ fn' = "round_trip"
    /\ args' = args
    /\ ret' = portion_from_per100(ret, args[2], up)
    /\ UNCHANGED appvars

Call_kcal_from_macros(f, c, p, oa, al, up) ==
    /\ fn = "none"
    /\ fn' = "kcal_from_macros"
    /\ args' = <<f, c, p, oa, al>>
    /\ ret' = kcal_from_macros(f, c, p, oa, al, up)
    /\ UNCHANGED appvars

\* kcal_from_macros(fat, carb, protein): the optional arguments omitted
Call_kcal_from_macros_3(f, c, p, up) ==
    /\ fn = "none"
    /\ fn' = "kcal_from_macros_3"
    /\ args' = <<f, c, p>>
    /\ ret' = kcal_from_macros(f, c, p, DefaultGrams, DefaultGrams, up)
    /\ UNCHANGED appvars

NextFn ==
    \/ \E x \in TextsUpTo(MaxLen) \cup {None} : Call_as_num(x)
    \/ \E v \in Amounts, p \in PortionSizes, up \in BOOLEAN :
           Call_per100_from_portion(v, p, up)
    \/ \E v \in Amounts, p \in PortionSizes, up \in BOOLEAN :
           Call_portion_from_per100(v, p, up)
    \/ \E up \in BOOLEAN : Call_round_trip(up)
    \/ \E f \in MacroGrams, c \in MacroGrams, p \in MacroGrams,
          oa \in ExtraGrams, al \in ExtraGrams, up \in BOOLEAN :
           Call_kcal_from_macros(f, c, p, oa, al, up)
    \/ \E f \in MacroGrams, c \in MacroGrams, p \in MacroGrams, up \in BOOLEAN :
           Call_kcal_from_macros_3(f, c, p, up)

SpecFn == Init /\ [][NextFn]_vars

----------------------------------------------------------------------------
(* Claims about the helper functions, checked under SpecFn *)

\* C1: for every value and every portion_size <= 0 (0 included),
\* per100_from_portion and portion_from_per100 both return 0, and neither
\* raises (a raised ZeroDivisionError is not the result 0).
C1_ZeroPortionSafe ==
    (/\ fn \in {"per100_from_portion", "portion_from_per100"}
     /\ args[2] # NoneFloat
     /\ args[2] <= 0)
    => ret = 0

\* per100_from_portion(50, 0) has been applied
C1_Witness ==
    fn = "per100_from_portion" /\ args = <<50 * Scale, 0>> /\ ret = 0

\* C2 as stated: for every portion_size > 0 and every value, the round trip
\* portion_from_per100(per100_from_portion(value, p), p) is within 0.01 of
\* value.
C2_RoundTripAnyPortion ==
    (fn = "round_trip" /\ args[2] > 0) => Abs(ret - args[1]) <= 10

\* C2 amended: the round trip is within 0.01 of value for every portion_size
\* with 0 < portion_size <= 100.
C2_RoundTripUpTo100 ==
    (fn = "round_trip" /\ args[2] > 0 /\ args[2] <= 100 * Scale)
    => Abs(ret - args[1]) <= 10

\* a round trip with a portion of at most 100 that did not return the value
C2_Witness ==
    /\ fn = "round_trip"
    /\ args[2] > 0
    /\ args[2] <= 100 * Scale
    /\ ret # args[1]

\* C3: kcal_from_macros returns 9 fat + 4 carb + 4 protein + 7 alcohol +
\* 3 organic acids rounded to the nearest integer, None or omitted arguments
\* counting as 0; fat 10, carb 20, protein 5 gives 190.
C3_EnergyFormula ==
    fn \in {"kcal_from_macros", "kcal_from_macros_3"} =>
        LET a == IF fn = "kcal_from_macros" THEN args ELSE args \o <<0, 0>>
            V(i) == IF a[i] = NoneFloat THEN 0 ELSE a[i]
            exact == 9 * V(1) + 4 * V(2) + 4 * V(3) + 7 * V(5) + 3 * V(4)
        IN  /\ ret % Scale = 0
            /\ 2 * Abs(ret - exact) <= Scale
            /\ (a = <<10 * Scale, 20 * Scale, 5 * Scale, 0, 0>>
                => ret = 190 * Scale)

\* kcal_from_macros(10, 20, 5) has been applied and returned 190
C3_Witness ==
    /\ fn = "kcal_from_macros_3"
    /\ args = <<10 * Scale, 20 * Scale, 5 * Scale>>
    /\ ret = 190 * Scale

\* C8: as_num never raises, every value it returns is a finite number, and
\* None, blank text and text without any digit (which is no decimal number)
\* give 0.0.
C8_AsNumFinite ==
    fn = "as_num" =>
        /\ ret.kind = "num"
        /\ (\/ args[1] = None
            \/ \A i \in 1..Len(args[1]) : Char(args[1], i) \notin Digits)
           => ret = Zero


----------------------------------------------------------------------------
(* Claims about the amounts of a script run, checked under Spec *)

\* C4: in every render, for either input basis, the per-100 energy is the
\* energy formula (9 fat + 4 carbohydrate + 4 protein, to the nearest whole
\* kcal) applied to the per-100 values, and the per-portion energy is the
\* formula applied to the per-portion values; neither is an input nor the
\* other basis's energy scaled by the portion ratio.
C4_EnergyPerBasis ==
    /\ run.kcal_100 % Scale = 0
    /\ 2 * Abs(run.kcal_100 - (9 * run.fat_total_100 + 4 * run.carb_100
                               + 4 * run.protein_100)) <= Scale
    /\ run.kcal_pp % Scale = 0
    /\ 2 * Abs(run.kcal_pp - (9 * run.fat_total_pp + 4 * run.carb_pp
                              + 4 * run.protein_pp)) <= Scale

\* a render on each basis where scaling the entered basis's energy by the
\* portion ratio gives another number than the derived basis's energy
C4_Witness ==
    /\ run.portion_size > 0
    /\ \A up \in BOOLEAN :
           IF run.input_basis = PorPorcion
           THEN run.kcal_100 # per100_from_portion(run.kcal_pp,
                                                   run.portion_size, up)
           ELSE run.kcal_pp # portion_from_per100(run.kcal_100,
                                                  run.portion_size, up)
    /\ run.input_basis = Por100

\* C5: with basis per portion, portion 50 g and inputs fat 5 g, saturated
\* fat 2 g, trans fat 0 mg, carbohydrate 20 g, sugars 10 g, added sugars 8 g,
\* fiber 2 g, protein 3 g, sodium 150 mg, the per-100 values are fat 10,
\* saturated fat 4, carbohydrate 40, sugars 20, added sugars 16, fiber 4,
\* protein 6, sodium 300, the per-100 energy is 274 kcal and the per-portion
\* energy 137 kcal.
C5_Scenario ==
    (/\ run.input_basis = PorPorcion
     /\ run.portion_size = 50 * Scale
     /\ run.fat_total_input = 5 * Scale
     /\ run.sat_fat_input = 2 * Scale
     /\ run.trans_fat_input_mg = 0
     /\ run.carb_input = 20 * Scale
     /\ run.sugars_total_input = 10 * Scale
     /\ run.sugars_added_input = 8 * Scale
     /\ run.fiber_input = 2 * Scale
     /\ run.protein_input = 3 * Scale
     /\ run.sodium_input_mg = 150 * Scale)
    => /\ run.fat_total_100 = 10 * Scale
       /\ run.sat_fat_100 = 4 * Scale
       /\ run.carb_100 = 40 * Scale
       /\ run.sugars_total_100 = 20 * Scale
       /\ run.sugars_added_100 = 16 * Scale
       /\ run.fiber_100 = 4 * Scale
       /\ run.protein_100 = 6 * Scale
       /\ run.sodium_100_mg = 300 * Scale
       /\ run.kcal_100 = 274 * Scale
       /\ run.kcal_pp = 137 * Scale

\* the scenario's texts are in the widgets and the script has run on them
C5_Witness ==
    /\ widgets.input_basis = PorPorcion
    /\ widgets.portion_size = "50"
    /\ widgets.fat_total_input = "5"
    /\ widgets.sat_fat_input = "2"
    /\ widgets.trans_fat_input_mg = "0"
    /\ widgets.carb_input = "20"
    /\ widgets.sugars_total_input = "10"
    /\ widgets.sugars_added_input = "8"
    /\ widgets.fiber_input = "2"
    /\ widgets.protein_input = "3"
    /\ widgets.sodium_input_mg = "150"
    /\ run.fat_total_pp = 5 * Scale
    /\ run.kcal_100 = 274 * Scale

\* the entered value inp is the value on the chosen basis, and the value on
\* the other basis is the conversion of inp with the portion size
Authoritative(inp, pp, c100) ==
    IF run.input_basis = PorPorcion
    THEN /\ pp = inp
         /\ \E up \in BOOLEAN :
                c100 = per100_from_portion(inp, run.portion_size, up)
    ELSE /\ c100 = inp
         /\ \E up \in BOOLEAN :
                pp = portion_from_per100(inp, run.portion_size, up)

\* C6: in every render exactly one basis is authoritative: for every
\* nutrient and every selected vitamin/mineral the value on the chosen input
\* basis is the entered value unchanged, and the value on the other basis is
\* per100_from_portion (basis per portion) or portion_from_per100 (basis per
\* 100) of that entered value and the portion size.
C6_OneBasisAuthoritative ==
    /\ Authoritative(run.fat_total_input, run.fat_total_pp, run.fat_total_100)
    /\ Authoritative(run.sat_fat_input, run.sat_fat_pp, run.sat_fat_100)
    /\ Authoritative(run.trans_fat_input_g, run.trans_fat_pp,
                     run.trans_fat_100)
    /\ Authoritative(run.carb_input, run.carb_pp, run.carb_100)
    /\ Authoritative(run.sugars_total_input, run.sugars_total_pp,
                     run.sugars_total_100)
    /\ Authoritative(run.sugars_added_input, run.sugars_added_pp,
                     run.sugars_added_100)
    /\ Authoritative(run.fiber_input, run.fiber_pp, run.fiber_100)
    /\ Authoritative(run.protein_input, run.protein_pp, run.protein_100)
    /\ Authoritative(run.sodium_input_mg, run.sodium_pp_mg, run.sodium_100_mg)
    /\ Len(run.vm_pp) = Len(run.selected_vm)
    /\ Len(run.vm_100) = Len(run.selected_vm)
    /\ \A k \in 1..Len(run.selected_vm) :
           Authoritative(run.vm_values[k], run.vm_pp[k], run.vm_100[k])

\* a render on the per-100 basis with a portion of 30 where a nutrient and a
\* micronutrient were entered and their per-portion values are derived
C6_Witness ==
    /\ run.input_basis = Por100
    /\ run.portion_size = 30 * Scale
    /\ run.fat_total_input = 5300
    /\ run.fat_total_100 = 5300
    /\ run.fat_total_pp = 1590
    /\ run.vm_values[3] = 2500
    /\ run.vm_100[3] = 2500
    /\ run.vm_pp[3] = 750


----------------------------------------------------------------------------
(* Claims about the drawn label, checked under SpecLabel *)

\* s begins with p
StartsWith(s, p) == Len(s) >= Len(p) /\ SubSeq(s, 1, Len(p)) = p

\* the nutrient a drawn text names: the label of a table row, or the
\* beginning of a segment of the linear format after its ", "
RowOf(s) ==
    LET b == IF StartsWith(s, ", ") THEN SubSeq(s, 3, Len(s)) ELSE s
    IN  CASE StartsWith(b, "Calorías") -> "energy"
          [] StartsWith(b, "Grasa total") -> "fat"
          [] StartsWith(b, "Grasa saturada") -> "sat"
          [] StartsWith(b, "Grasa trans") \/ StartsWith(b, "Grasa Trans")
                 -> "trans"
          [] StartsWith(b, "Carbohidratos totales") -> "carb"
          [] StartsWith(b, "Fibra dietaria") -> "fiber"
          [] StartsWith(b, "Azúcares totales") -> "sugars"
          [] StartsWith(b, "Azúcares añadidos") -> "added"
          [] StartsWith(b, "Proteína") -> "protein"
          [] StartsWith(b, "Sodio") -> "sodium"
          [] OTHER -> "none"

\* the k-th call on the canvas is a text
IsText(k) == img.ops[k].op = "text"

\* the k-th call draws the name of one of the ten nutrients
IsRow(k) == IsText(k) /\ RowOf(img.ops[k].s) # "none"

\* the tables draw a row as its label followed by the per-100 and the
\* per-portion cell
Cell100(k) == img.ops[k + 1].s
CellPP(k) == img.ops[k + 2].s

Tables == {"fig1_vertical.png", "fig3_simplificado.png", "fig4_tabular.png"}

EmphasisSet == {"energy", "sat", "trans", "added", "sodium"}

\* the k-th text is a title of the label
IsTitle(k) == StartsWith(img.ops[k].s, "Información")

\* C9: for every label format and every input, the rows Energy, Saturated
\* Fat, Trans Fat, Added Sugars and Sodium are all rendered with emphasis
\* (bold) and no other row is rendered with emphasis: each of the five is
\* drawn in bold, every other nutrient is drawn in the regular font, and a
\* bold text that names no nutrient is a title or a cell on the line of one
\* of the five.
C9_EmphasisAllFormats ==
    /\ \A r \in EmphasisSet :
           \E k \in DOMAIN img.ops :
               IsText(k) /\ RowOf(img.ops[k].s) = r /\ img.ops[k].font.bold
    /\ \A k \in DOMAIN img.ops :
           IsRow(k) =>
               (img.ops[k].font.bold <=> RowOf(img.ops[k].s) \in EmphasisSet)
    /\ \A k \in DOMAIN img.ops :
           (IsText(k) /\ ~IsRow(k) /\ ~IsTitle(k) /\ img.ops[k].font.bold) =>
               \E j \in DOMAIN img.ops :
                   /\ IsRow(j)
                   /\ RowOf(img.ops[j].s) \in EmphasisSet
                   /\ img.ops[j].xy[2] = img.ops[k].xy[2]

\* the place of a nutrient in the fixed order
Rank(r) ==
    CASE r = "energy" -> 1
      [] r = "fat" -> 2
      [] r = "sat" -> 3
      [] r = "trans" -> 4
      [] r = "carb" -> 5
      [] r = "fiber" -> 6
      [] r = "sugars" -> 7
      [] r = "added" -> 8
      [] r = "protein" -> 9
      [] r = "sodium" -> 10

\* two texts of the same listing of nutrients: any two of a table, two of the
\* same line of the linear format (one line per 100, one per portion)
SameListing(j, k) ==
    img.file \in Tables \/ img.ops[j].xy[2] = img.ops[k].xy[2]

\* C10: in every label format the nutrient rows that the format renders
\* appear in the fixed order energy; total fat, saturated fat, trans fat;
\* total carbohydrate, fiber, total sugars, added sugars; protein; sodium;
\* and the footnote is the last text drawn.
C10_FixedOrder ==
    /\ \A j, k \in DOMAIN img.ops :
           (j < k /\ IsRow(j) /\ IsRow(k) /\ SameListing(j, k)) =>
               Rank(RowOf(img.ops[j].s)) <= Rank(RowOf(img.ops[k].s))
    /\ IsText(Len(img.ops))
    /\ img.ops[Len(img.ops)].s = Foot(run)


\* the j-th call draws the name of the k-th selected vitamin/mineral: the
\* label of its table row, or the beginning of its segment in a line of the
\* linear format
IsVm(j, k) ==
    /\ IsText(j)
    /\ \/ img.ops[j].s = clean_vm_label(run.selected_vm[k])
       \/ StartsWith(img.ops[j].s,
                     ", " \o clean_vm_label(run.selected_vm[k]) \o " ")

\* the listings of nutrients of a label: one in a table (a row holds both
\* bases), two in the linear format (one line per basis)
Listings == IF img.file \in Tables THEN 1 ELSE 2

\* C11: in every label format, when vitamins/minerals are selected, each
\* selected one is rendered exactly once per basis, in the order of
\* selection, after the sodium row and before the footnote.
C11_VitaminsRendered ==
    /\ \A k \in DOMAIN run.selected_vm :
           Cardinality({j \in DOMAIN img.ops : IsVm(j, k)}) = Listings
    /\ \A k1, k2 \in DOMAIN run.selected_vm :
           \A j1, j2 \in DOMAIN img.ops :
               (k1 < k2 /\ IsVm(j1, k1) /\ IsVm(j2, k2) /\ SameListing(j1, j2))
               => j1 < j2
    /\ \A k \in DOMAIN run.selected_vm :
           \A j \in DOMAIN img.ops :
               IsVm(j, k) =>
                   /\ j < Len(img.ops)
                   /\ \A i \in DOMAIN img.ops :
                          (IsRow(i) /\ RowOf(img.ops[i].s) = "sodium"
                           /\ SameListing(i, j)) => i < j


\* the number of calls of a kind ("rect", "line", "text") on the canvas
Count(kind) == Cardinality({j \in DOMAIN img.ops : img.ops[j].op = kind})

\* the j-th call draws the name of one of the vitamins/minerals on offer
NamesVm(j) ==
    /\ IsText(j)
    /\ \E i \in DOMAIN vm_options :
           \/ img.ops[j].s = clean_vm_label(vm_options[i])
           \/ StartsWith(img.ops[j].s,
                         ", " \o clean_vm_label(vm_options[i]) \o " ")

\* C12: in every label format, when selected_vm is empty the draw sequence
\* contains no vitamin/mineral row and no separator line of the
\* vitamin/mineral section: the calls are exactly those of the fixed rows and
\* the footnote.  Vertical: frame, 16 lines (5 thick rules, 2 column rules,
\* 9 row lines), 39 texts (title, portion, servings, 5 of the energy row and
\* its headers, 9 rows and sodium of 3 each, footnote).  Simplified: 13 lines,
\* 30 texts (7 rows).  Tabular: 16 lines, 37 texts (9 rows).  Linear: no
\* line, 17 texts (2 titles, 6 and 8 segments, footnote).
C12_NoVitaminSection ==
    run.selected_vm = <<>> =>
        /\ \A j \in DOMAIN img.ops : ~NamesVm(j)
        /\ Count("rect") = 1
        /\ Count("rect") + Count("line") + Count("text") = Len(img.ops)
        /\ <<Count("line"), Count("text")>> =
               CASE img.file = "fig1_vertical.png" -> <<16, 39>>
                 [] img.file = "fig3_simplificado.png" -> <<13, 30>>
                 [] img.file = "fig4_tabular.png" -> <<16, 37>>
                 [] img.file = "fig5_lineal.png" -> <<0, 17>>

\* a tabular label drawn with nothing selected, its last three calls being
\* the last cell of the Proteína row, the closing line and the footnote
C12_Witness ==
    /\ run.selected_vm = <<>>
    /\ img.file = "fig4_tabular.png"
    /\ img.ops[Len(img.ops)].op = "text"
    /\ img.ops[Len(img.ops) - 1].op = "line"
    /\ img.ops[Len(img.ops) - 2].op = "text"
    /\ RowOf(img.ops[Len(img.ops) - 4].s) = "protein"


\* the nutrients of the fixed row set whose name is drawn on the label
RowsDrawn == {RowOf(img.ops[j].s) : j \in {i \in DOMAIN img.ops : IsRow(i)}}

\* a text of the unsaturated-fat detail is drawn
UnsaturatedDrawn ==
    \E j \in DOMAIN img.ops :
        /\ IsText(j)
        /\ \/ StartsWith(img.ops[j].s, "Grasa poli")
           \/ StartsWith(img.ops[j].s, "Grasa mono")

\* C13 as stated: the Simplified format differs from the fixed row set only
\* by omitting fiber and the poly/mono-unsaturated fat detail: energy, total
\* fat, saturated fat, trans fat, total carbohydrate, total sugars, added
\* sugars, protein and sodium are all rendered by it.
C13_SimplifiedOmitsOnlyFiber ==
    img.file = "fig3_simplificado.png" =>
        /\ RowsDrawn = {"energy", "fat", "sat", "trans", "carb", "sugars",
                        "added", "protein", "sodium"}
        /\ ~UnsaturatedDrawn

\* C13 amended: the Simplified format differs from the fixed row set by
\* omitting fiber, the poly/mono-unsaturated fat detail and protein: energy,
\* total fat, saturated fat, trans fat, total carbohydrate, total sugars,
\* added sugars and sodium are rendered by it, each once.
C13_SimplifiedRows ==
    img.file = "fig3_simplificado.png" =>
        /\ RowsDrawn = {"energy", "fat", "sat", "trans", "carb", "sugars",
                        "added", "sodium"}
        /\ Cardinality({i \in DOMAIN img.ops : IsRow(i)}) = 8
        /\ ~UnsaturatedDrawn

\* a simplified label drawn on a form that holds protein, whose row after
\* Azúcares añadidos is Sodio
C13_Witness ==
    /\ img.file = "fig3_simplificado.png"
    /\ run.protein_pp = 3 * Scale
    /\ \E j \in DOMAIN img.ops :
           /\ IsRow(j)
           /\ RowOf(img.ops[j].s) = "added"
           /\ IsRow(j + 4)
           /\ RowOf(img.ops[j + 4].s) = "sodium"


\* the height a format gives one vitamin/mineral row: ROW_H in the vertical
\* table, int(ROW_H * 0.9) in the tabular one, 40 per selected one in the
\* linear format
RowHeight ==
    CASE img.file = "fig1_vertical.png" -> ROW_H
      [] img.file = "fig4_tabular.png" -> (ROW_H * 9) \div 10
      [] img.file = "fig5_lineal.png" -> 40
      [] OTHER -> 0

\* C14: for every label format the canvas height is computed from the number
\* of rows actually rendered and is never a static constant: adding one
\* selected vitamin/mineral row to a format that renders it (Vertical,
\* Tabular, Linear) increases the canvas height by that format's row height.
C14_HeightFollowsRows ==
    [][(/\ img'.file = img.file
        /\ img.file # "fig3_simplificado.png"
        /\ Len(run'.selected_vm) = Len(run.selected_vm) + 1)
       => img'.H = img.H + RowHeight]_vars


----------------------------------------------------------------------------
(* Claims about the texts of the label, checked under SpecText *)

\* s is one or more decimal digits
AllDigits(s) == Len(s) > 0 /\ \A i \in 1..Len(s) : Char(s, i) \in Digits

\* s is a whole number, or a whole number, a point and one digit that is
\* not 0
IsOneDecimal(s) ==
    \/ AllDigits(s)
    \/ /\ Len(s) >= 3
       /\ Char(s, Len(s) - 1) = "."
       /\ Char(s, Len(s)) \in Digits \ {"0"}
       /\ AllDigits(SubSeq(s, 1, Len(s) - 2))

\* the number such a text denotes, in thousandths
Milli(s) ==
    IF AllDigits(s) THEN DigitsValue(s) * Scale
    ELSE DigitsValue(SubSeq(s, 1, Len(s) - 2)) * Scale
         + DigitVal(Char(s, Len(s))) * 100

\* s ends with u; s without its last Len(u) characters
EndsWith(s, u) == Len(s) >= Len(u) /\ SubSeq(s, Len(s) - Len(u) + 1, Len(s)) = u
Before(s, u) == SubSeq(s, 1, Len(s) - Len(u))

\* s shows v grams: at most one decimal, nothing to strip, v to the nearest
\* tenth
ShowsGrams(s, v) ==
    /\ EndsWith(s, " g")
    /\ IsOneDecimal(Before(s, " g"))
    /\ Abs(Milli(Before(s, " g")) - v) <= 50

\* s shows v milligrams: a whole number, v to the nearest unit
ShowsMg(s, v) ==
    /\ EndsWith(s, " mg")
    /\ AllDigits(Before(s, " mg"))
    /\ 2 * Abs(Milli(Before(s, " mg")) - v) <= Scale

\* s shows v kcal as a whole number, followed by nothing or by a whole number
\* of kJ in parentheses
ShowsKcal(s, v) ==
    \E n \in 1..Len(s) :
        /\ AllDigits(SubSeq(s, 1, n))
        /\ Milli(SubSeq(s, 1, n)) = v
        /\ \/ n = Len(s)
           \/ /\ SubSeq(s, n + 1, n + 2) = " ("
              /\ EndsWith(s, " kJ)")
              /\ AllDigits(SubSeq(s, n + 3, Len(s) - 4))

\* the value a nutrient has per 100 and per portion
Value100(r) ==
    CASE r = "energy" -> run.kcal_100
      [] r = "fat" -> run.fat_total_100
      [] r = "sat" -> run.sat_fat_100
      [] r = "trans" -> run.trans_100_mg
      [] r = "carb" -> run.carb_100
      [] r = "fiber" -> run.fiber_100
      [] r = "sugars" -> run.sugars_total_100
      [] r = "added" -> run.sugars_added_100
      [] r = "protein" -> run.protein_100
      [] r = "sodium" -> run.sodium_100_mg

ValuePP(r) ==
    CASE r = "energy" -> run.kcal_pp
      [] r = "fat" -> run.fat_total_pp
      [] r = "sat" -> run.sat_fat_pp
      [] r = "trans" -> run.trans_pp_mg
      [] r = "carb" -> run.carb_pp
      [] r = "fiber" -> run.fiber_pp
      [] r = "sugars" -> run.sugars_total_pp
      [] r = "added" -> run.sugars_added_pp
      [] r = "protein" -> run.protein_pp
      [] r = "sodium" -> run.sodium_pp_mg

\* s shows the value v of nutrient r in the unit of r
Shows(r, s, v) ==
    CASE r = "energy" -> ShowsKcal(s, v)
      [] r \in {"trans", "sodium"} -> ShowsMg(s, v)
      [] OTHER -> ShowsGrams(s, v)

\* the length of the name of a nutrient in a segment of the linear format
NameLen(r) ==
    CASE r = "energy" -> Len("Calorías")
      [] r = "fat" -> Len("Grasa total")
      [] r = "carb" -> Len("Carbohidratos totales")
      [] r = "added" -> Len("Azúcares añadidos")
      [] r = "protein" -> Len("Proteína")
      [] r = "sodium" -> Len("Sodio")

\* what follows "<name> " in a segment of the linear format
SegValue(s, n) ==
    IF StartsWith(s, ", ") THEN SubSeq(s, n + 4, Len(s))
    ELSE SubSeq(s, n + 2, Len(s))

\* the j-th call of the linear format belongs to the line per 100: it comes
\* before the title of the line per portion
OnLine100(j) ==
    \E i \in DOMAIN img.ops :
        /\ j < i
        /\ IsText(i)
        /\ img.ops[i].s = "Información nutricional (porción):"

\* the j-th call is the label of a table row with its two cells after it
IsTableRow(j) ==
    /\ img.file \in Tables
    /\ IsRow(j)
    /\ RowOf(img.ops[j].s) # "energy"

\* C15: in every label format every milligram-scale value (sodium, trans
\* fat, mg minerals) and every energy value is rendered as an integer with
\* no decimal point, and every gram-scale value with at most one decimal
\* place, trailing zeros and a trailing point stripped (10.0 shows as "10",
\* 2.5 as "2.5", 0 as "0"); the number shown is the value rounded so.
C15_NumberFormats ==
    /\ ShowsKcal(run.cal_100_txt, run.kcal_100)
    /\ ShowsKcal(run.cal_pp_txt, run.kcal_pp)
    /\ img.file \in Tables =>
           /\ \E j \in DOMAIN img.ops :
                  IsText(j) /\ img.ops[j].s = run.cal_100_txt
           /\ \E j \in DOMAIN img.ops :
                  IsText(j) /\ img.ops[j].s = run.cal_pp_txt
    /\ \A j \in DOMAIN img.ops :
           IsTableRow(j) =>
               /\ Shows(RowOf(img.ops[j].s), Cell100(j),
                        Value100(RowOf(img.ops[j].s)))
               /\ Shows(RowOf(img.ops[j].s), CellPP(j),
                        ValuePP(RowOf(img.ops[j].s)))
    /\ \A j \in DOMAIN img.ops :
           (img.file \notin Tables /\ IsRow(j)) =>
               Shows(RowOf(img.ops[j].s),
                     SegValue(img.ops[j].s, NameLen(RowOf(img.ops[j].s))),
                     IF OnLine100(j) THEN Value100(RowOf(img.ops[j].s))
                     ELSE ValuePP(RowOf(img.ops[j].s)))
    /\ \A k \in DOMAIN run.selected_vm :
           \A j \in DOMAIN img.ops :
               (IsVm(j, k) /\ vm_unit_of(run.selected_vm[k]) = "mg") =>
                   IF img.file \in Tables
                   THEN /\ ShowsMg(Cell100(j), run.vm_100[k])
                        /\ ShowsMg(CellPP(j), run.vm_pp[k])
                   ELSE ShowsMg(SegValue(img.ops[j].s,
                                         Len(clean_vm_label(run.selected_vm[k]))),
                                IF OnLine100(j) THEN run.vm_100[k]
                                ELSE run.vm_pp[k])

\* a tabular label for a portion of 30 with kJ: 16.67 g of fat per 100 shown
\* as "16.7 g", 10.0 g of protein as "10 g", 0 mg of trans fat as "0 mg" and
\* the energy per portion as "137 (573 kJ)"
C15_Witness ==
    /\ img.file = "fig4_tabular.png"
    /\ run.portion_size = 30 * Scale
    /\ run.fat_total_100 = 16670
    /\ run.protein_100 = 10 * Scale
    /\ run.cal_pp_txt = "137 (573 kJ)"
    /\ \E j \in DOMAIN img.ops :
           IsTableRow(j) /\ RowOf(img.ops[j].s) = "fat"
           /\ Cell100(j) = "16.7 g"
    /\ \E j \in DOMAIN img.ops :
           IsTableRow(j) /\ RowOf(img.ops[j].s) = "protein"
           /\ Cell100(j) = "10 g"
    /\ \E j \in DOMAIN img.ops :
           IsTableRow(j) /\ RowOf(img.ops[j].s) = "trans"
           /\ Cell100(j) = "0 mg"


\* kj is kcal * 4.184 rounded to the nearest integer
IsKJ(kj, kcal) ==
    /\ kj # NoneFloat
    /\ 2 * Abs(kj * Scale - (kcal \div Scale) * 4184) <= Scale

C17_Footnote ==
    /\ IsText(Len(img.ops))
    /\ img.ops[Len(img.ops)].s =
           "No es fuente significativa de " \o Strip(widgets.footnote_base)
    /\ \A j \in DOMAIN img.ops :
           (IsText(j) /\ StartsWith(img.ops[j].s, "No es fuente"))
           => j = Len(img.ops)

\* a linear label whose footnote field holds blanks only shows the literal
\* alone
C17_Witness ==
    /\ widgets.footnote_base = "   "
    /\ img.file = "fig5_lineal.png"
    /\ img.ops[Len(img.ops)].s = "No es fuente significativa de "


\* C18: for every whole number of servings per container n >= 0 entered
\* (multiples of 10 and 0 included), the servings label text is "Aprox. "
\* followed by the full decimal digits of n, in every format that shows it
\* (all four do).
C18_ServingsDigits ==
    (run.servings_per_pack >= 0 /\ run.servings_per_pack % Scale = 0) =>
        /\ run.servings_label_text =
               "Número de porciones por envase: Aprox. "
               \o ToString(run.servings_per_pack \div Scale)
        /\ \E j \in DOMAIN img.ops :
               /\ IsText(j)
               /\ EndsWith(img.ops[j].s,
                           "Número de porciones por envase: Aprox. "
                           \o ToString(run.servings_per_pack \div Scale))


\* the text s shows the quotient n / d rounded to the nearest milligram
ShowsNearestMg(s, n, d) ==
    /\ EndsWith(s, " mg")
    /\ AllDigits(Before(s, " mg"))
    /\ 2 * Abs(DigitsValue(Before(s, " mg")) * d - n) <= d

\* C19: for every trans-fat amount entered in whole milligrams and every
\* portion size > 0, the trans-fat figure shown on the derived basis is the
\* entered milligrams converted to that basis (times 100 / portion when
\* entered per portion, times portion / 100 when entered per 100) rounded to
\* the nearest milligram: the conversion through grams loses no milligram.
C19_TransDerivedExact ==
    (/\ run.portion_size > 0
     /\ run.trans_fat_input_mg >= 0
     /\ run.trans_fat_input_mg % Scale = 0)
    => \A j \in DOMAIN img.ops :
           (IsTableRow(j) /\ RowOf(img.ops[j].s) = "trans") =>
               IF run.input_basis = PorPorcion
               THEN ShowsNearestMg(Cell100(j), run.trans_fat_input_mg * 100,
                                   run.portion_size)
               ELSE ShowsNearestMg(CellPP(j),
                                   (run.trans_fat_input_mg \div Scale)
                                   * run.portion_size,
                                   100 * Scale)


----------------------------------------------------------------------------
(* Claims about the front-of-pack criteria, checked under Spec *)

\* pct is the share of nutrient_kcal in the per-portion energy as a
\* percentage rounded to one decimal, and 0 when that energy is 0
IsShare(pct, nutrient_kcal) ==
    IF run.kcal_pp > 0
    THEN /\ pct % 100 = 0
         /\ Abs(pct * (run.kcal_pp \div Scale) - 100 * nutrient_kcal)
                <= 50 * (run.kcal_pp \div Scale)
    ELSE pct = 0

\* C20: the added-sugar, saturated-fat and trans-fat flags are raised exactly
\* when the nutrient's share of the per-portion energy (4 kcal/g for added
\* sugars, 9 kcal/g for saturated and trans fat, as a percentage rounded to
\* one decimal) is at least 10 %, 10 % and 1 %; none is raised when the
\* per-portion energy is 0; computing them never divides by zero.
C20_WarningFlags ==
    /\ IsShare(run.pct_kcal_sug_add_pp, 4 * run.sugars_added_pp)
    /\ IsShare(run.pct_kcal_sat_fat_pp, 9 * run.sat_fat_pp)
    /\ IsShare(run.pct_kcal_trans_pp, 9 * run.trans_fat_pp)
    /\ run.fop_sugar <=> run.pct_kcal_sug_add_pp >= 10 * Scale
    /\ run.fop_sat <=> run.pct_kcal_sat_fat_pp >= 10 * Scale
    /\ run.fop_trans <=> run.pct_kcal_trans_pp >= 1 * Scale
    /\ run.kcal_pp = 0 => ~(run.fop_sugar \/ run.fop_sat \/ run.fop_trans)

\* amounts entered per 100 with a portion of 0: the per-portion energy is 0
\* and no flag is raised, although added sugars are 40 % of the energy per 100
C20_Witness ==
    /\ run.input_basis = Por100
    /\ run.portion_size = 0
    /\ run.sugars_added_100 = 8 * Scale
    /\ run.kcal_pp = 0
    /\ run.pct_kcal_sug_add_pp = 0
    /\ ~run.fop_sugar

=============================================================================
